---- MODULE Spec2Model ----
(***************************************************************************)
(* Model of src/main.cpp: the digital-input capability predicates (SFINAE  *)
(* traits, concepts, requires-expressions), the two gated Button wrappers, *)
(* processSensor and the collaborator fixtures.                            *)
(*                                                                         *)
(* A type is modelled by its structural shape: for each member function    *)
(* name the return type of the no-argument call expression, or "none" when *)
(* the call expression is ill-formed (set_value: the one-argument call).   *)
(***************************************************************************)
EXTENDS Integers, Sequences, FiniteSets, TLC

\* ------------------------------------------------------------------------
\* Bounds
\* ------------------------------------------------------------------------
MaxObjs == 1
MaxButtons == 2

ObjIds == 1..MaxObjs
BtnIds == 1..MaxButtons

\* values handed to set_value: the default of value_ and the literals of the
\* two tests
Values == {0, 42, 100}

\* ------------------------------------------------------------------------
\* Types as structural shapes
\* ------------------------------------------------------------------------
InitReturns == {"none", "void", "int"}
ReadReturns == {"none", "void", "int", "bool", "float"}

Shape(i, r, s, g, sv) ==
    [init |-> i, read |-> r, setup |-> s, getValue |-> g, set_value |-> sv]

DigitalIn == Shape("void", "int", "none", "none", "none")

MockedDigitalInput == Shape("void", "int", "none", "none", "void")

MalformedDigitalInput == Shape("none", "none", "none", "none", "none")

DigitalSensor == Shape("void", "bool", "none", "none", "none")

AnalogSensor == Shape("none", "none", "void", "int", "none")

\* the types the source defines
Fixtures ==
    {DigitalIn, MockedDigitalInput, MalformedDigitalInput, DigitalSensor,
     AnalogSensor}

\* every type a template of the source can be handed: the fixtures and all
\* combinations of init()/read() return types
CandidateTypes ==
    Fixtures \cup
    {Shape(i, r, "none", "none", "none") : i \in InitReturns, r \in ReadReturns}

\* decltype(std::declval<T>().m()) / requires(T t) { t.m(); } is well-formed
WellFormed(T, m) == T[m] # "none"

\* std::same_as<decltype(e), R>
same_as(A, B) == A = B

\* ------------------------------------------------------------------------
\* The capability predicates
\* ------------------------------------------------------------------------
\* overload resolution between test_init<U>(int) -> true_type, viable only
\* when the probe expression is well-formed, and test_init<U>(...) -> false_type
test_init(U) == IF WellFormed(U, "init") THEN TRUE ELSE FALSE

test_read(U) == IF WellFormed(U, "read") THEN TRUE ELSE FALSE

is_digital_input_old_sfinae_type_trait(T) == test_init(T) /\ test_read(T)

\* a mutant: the primary template derives from true_type
new_sfinae_primary_true(T) == TRUE

\* the partial specialization is chosen when both decltype's of the void_t
\* are well-formed, else the primary template (false_type)
is_digital_input_new_sfinae_type_trait(T) ==
    IF WellFormed(T, "init") /\ WellFormed(T, "read") THEN TRUE ELSE FALSE

is_digital_input_new_sfinae_type_trait_v(T) ==
    is_digital_input_new_sfinae_type_trait(T)

digital_input_concept(T) == WellFormed(T, "init") /\ WellFormed(T, "read")

\* a mutant: the return-type-requirements are dropped
DigitalInputConcept_names_only(T) ==
    WellFormed(T, "init") /\ WellFormed(T, "read")

DigitalInputConcept(T) ==
    /\ WellFormed(T, "init") /\ same_as(T.init, "void")
    /\ WellFormed(T, "read") /\ same_as(T.read, "int")

is_digital_input_v(T) == WellFormed(T, "init") /\ WellFormed(T, "read")

\* template <typename DIn, typename = enable_if_t<..._v<DIn>>> plus the
\* static_assert in the class body
ButtonWithSfinae_gate(DIn) == is_digital_input_new_sfinae_type_trait_v(DIn)

\* template <DigitalInputConcept DIn>
ButtonWithConcept_gate(DIn) == DigitalInputConcept(DIn)

\* bool data = sensor.read(): copy-initialization of a bool
ConvertibleToBool(R) == R \in {"int", "bool", "float"}

\* processSensor<T> is well-formed: only the branch if constexpr selects is
\* instantiated
processSensor_compiles(T) ==
    IF is_digital_input_v(T) THEN ConvertibleToBool(T.read) ELSE TRUE

\* ------------------------------------------------------------------------
\* State
\* ------------------------------------------------------------------------
VARIABLES
    cand,       \* translation: the candidate type being classified
    verdict,    \* translation: the predicates' values for cand, once evaluated
    named,      \* translation: outcome of naming each template over cand
    objs,       \* run time: live collaborator objects, by address
    buttons,    \* run time: live wrappers, by address
    last,       \* run time: the operation that ran last, its argument and result
    calls,      \* run time: the collaborator member calls the last operation made
    out,        \* run time: what the last operation printed
    lastSet     \* history: argument of the latest set_value on each address

vars == <<cand, verdict, named, objs, buttons, last, calls, out, lastSet>>

Templates == {"ButtonWithSfinae", "ButtonWithConcept", "processSensor"}

NotEvaluated ==
    [evaluated |-> FALSE, old_sfinae |-> FALSE, new_sfinae |-> FALSE,
     concept |-> FALSE, DigitalInputConcept |-> FALSE, v |-> FALSE]

NotNamed == [t \in Templates |-> "unused"]

\* ------------------------------------------------------------------------
\* Member functions of the fixtures: the object after the call, the value
\* returned and the text printed
\* ------------------------------------------------------------------------
MockedDigitalInput_new == [cls |-> MockedDigitalInput, value_ |-> 0]

MockedDigitalInput_init(self) == [self |-> self, ret |-> <<>>, out |-> <<>>]

\* a mutant: read() ignores value_
MockedDigitalInput_read_default(self) ==
    [self |-> self, ret |-> <<0>>, out |-> <<>>]

MockedDigitalInput_read(self) ==
    [self |-> self, ret |-> <<self.value_>>, out |-> <<>>]

MockedDigitalInput_set_value(self, v) ==
    [self |-> [self EXCEPT !.value_ = v], ret |-> <<>>, out |-> <<>>]

DigitalSensor_init(self) ==
    [self |-> self, ret |-> <<>>,
     out |-> <<[kind |-> "Sensor initialized", data |-> <<>>]>>]

DigitalSensor_read(self) == [self |-> self, ret |-> <<TRUE>>, out |-> <<>>]

\* the classes objects are made of (DigitalIn declares its members only)
Classes ==
    {MockedDigitalInput, MalformedDigitalInput, DigitalSensor, AnalogSensor}

\* default construction; a class without data members keeps value_ at 0
Construct(C) ==
    IF C = MockedDigitalInput THEN MockedDigitalInput_new
    ELSE [cls |-> C, value_ |-> 0]

\* self.fn() for the members the templates call
Member(self, fn) ==
    CASE self.cls = MockedDigitalInput /\ fn = "init" ->
            MockedDigitalInput_init(self)
      [] self.cls = MockedDigitalInput /\ fn = "read" ->
            MockedDigitalInput_read(self)
      [] self.cls = DigitalSensor /\ fn = "init" -> DigitalSensor_init(self)
      [] self.cls = DigitalSensor /\ fn = "read" -> DigitalSensor_read(self)

\* implicit conversion of a read() result of type R to int
ToInt(x, R) == IF R = "bool" THEN (IF x THEN 1 ELSE 0) ELSE x

\* implicit conversion of a read() result of type R to bool
ToBool(x, R) == IF R = "bool" THEN x ELSE x # 0

\* operator<< of a bool without boolalpha
PrintBool(b) == IF b THEN 1 ELSE 0

\* ------------------------------------------------------------------------
\* The wrappers: heap is the map of live collaborators; the result gives the
\* heap after the call, the value returned, the collaborator calls made and
\* the text printed
\* ------------------------------------------------------------------------
ButtonWithSfinae_new(DIn, input) ==
    [kind |-> "ButtonWithSfinae", DIn |-> DIn, digitalInput_ |-> input]

ButtonWithSfinae_init(self, heap) ==
    LET p == self.digitalInput_
        r == Member(heap[p], "init")
    IN  [heap |-> [heap EXCEPT ![p] = r.self], ret |-> <<>>,
         calls |-> <<[obj |-> p, fn |-> "init"]>>, out |-> r.out]

\* a mutant: read() adds an offset to the forwarded value
ButtonWithSfinae_read_offset(self, heap) ==
    LET p == self.digitalInput_
        r == Member(heap[p], "read")
    IN  [heap |-> [heap EXCEPT ![p] = r.self],
         ret |-> <<ToInt(r.ret[1], self.DIn.read) + 1>>,
         calls |-> <<[obj |-> p, fn |-> "read"]>>, out |-> r.out]

ButtonWithSfinae_read(self, heap) ==
    LET p == self.digitalInput_
        r == Member(heap[p], "read")
    IN  [heap |-> [heap EXCEPT ![p] = r.self],
         ret |-> <<ToInt(r.ret[1], self.DIn.read)>>,
         calls |-> <<[obj |-> p, fn |-> "read"]>>, out |-> r.out]

ButtonWithConcept_new(DIn, input) ==
    [kind |-> "ButtonWithConcept", DIn |-> DIn, digitalInput_ |-> input]

\* a mutant: init() also clears the collaborator
ButtonWithConcept_init_reset(self, heap) ==
    LET p == self.digitalInput_
        r == Member(heap[p], "init")
    IN  [heap |-> [heap EXCEPT ![p] = [r.self EXCEPT !.value_ = 0]],
         ret |-> <<>>,
         calls |-> <<[obj |-> p, fn |-> "init"]>>, out |-> r.out]

ButtonWithConcept_init(self, heap) ==
    LET p == self.digitalInput_
        r == Member(heap[p], "init")
    IN  [heap |-> [heap EXCEPT ![p] = r.self], ret |-> <<>>,
         calls |-> <<[obj |-> p, fn |-> "init"]>>, out |-> r.out]

ButtonWithConcept_read(self, heap) ==
    LET p == self.digitalInput_
        r == Member(heap[p], "read")
    IN  [heap |-> [heap EXCEPT ![p] = r.self],
         ret |-> <<ToInt(r.ret[1], self.DIn.read)>>,
         calls |-> <<[obj |-> p, fn |-> "read"]>>, out |-> r.out]

Kinds == {"ButtonWithSfinae", "ButtonWithConcept"}

Gate(kind, DIn) ==
    IF kind = "ButtonWithSfinae" THEN ButtonWithSfinae_gate(DIn)
    ELSE ButtonWithConcept_gate(DIn)

Button_new(kind, DIn, input) ==
    IF kind = "ButtonWithSfinae" THEN ButtonWithSfinae_new(DIn, input)
    ELSE ButtonWithConcept_new(DIn, input)

Button_init(self, heap) ==
    IF self.kind = "ButtonWithSfinae" THEN ButtonWithSfinae_init(self, heap)
    ELSE ButtonWithConcept_init(self, heap)

Button_read(self, heap) ==
    IF self.kind = "ButtonWithSfinae" THEN ButtonWithSfinae_read(self, heap)
    ELSE ButtonWithConcept_read(self, heap)

\* ------------------------------------------------------------------------
\* processSensor(T& sensor) on the object at address p
\* ------------------------------------------------------------------------
\* a mutant: the report prints the int read() returned
processSensor_int(p, heap) ==
    LET T == heap[p].cls IN
    IF is_digital_input_v(T)
    THEN LET i == Member(heap[p], "init")
             r == Member(i.self, "read")
         IN  [heap |-> [heap EXCEPT ![p] = r.self],
              calls |-> <<[obj |-> p, fn |-> "init"], [obj |-> p, fn |-> "read"]>>,
              out |-> i.out \o r.out \o
                      <<[kind |-> "Digital data",
                         data |-> <<ToInt(r.ret[1], T.read)>>]>>]
    ELSE [heap |-> heap, calls |-> <<>>,
          out |-> <<[kind |-> "Not a digital input sensor", data |-> <<>>]>>]

\* a mutant: the digital path forgets sensor.init()
processSensor_no_init(p, heap) ==
    LET T == heap[p].cls IN
    IF is_digital_input_v(T)
    THEN LET r == Member(heap[p], "read")
             data == ToBool(r.ret[1], T.read)
         IN  [heap |-> [heap EXCEPT ![p] = r.self],
              calls |-> <<[obj |-> p, fn |-> "read"]>>,
              out |-> r.out \o
                      <<[kind |-> "Digital data", data |-> <<PrintBool(data)>>]>>]
    ELSE [heap |-> heap, calls |-> <<>>,
          out |-> <<[kind |-> "Not a digital input sensor", data |-> <<>>]>>]

processSensor(p, heap) ==
    LET T == heap[p].cls IN
    IF is_digital_input_v(T)
    THEN LET i == Member(heap[p], "init")
             r == Member(i.self, "read")
             data == ToBool(r.ret[1], T.read)
         IN  [heap |-> [heap EXCEPT ![p] = r.self],
              calls |-> <<[obj |-> p, fn |-> "init"], [obj |-> p, fn |-> "read"]>>,
              out |-> i.out \o r.out \o
                      <<[kind |-> "Digital data", data |-> <<PrintBool(data)>>]>>]
    ELSE [heap |-> heap, calls |-> <<>>,
          out |-> <<[kind |-> "Not a digital input sensor", data |-> <<>>]>>]

\* ------------------------------------------------------------------------
\* Run-time operations
\* ------------------------------------------------------------------------
Op(name, id, arg, ret) == [op |-> name, id |-> id, arg |-> arg, ret |-> ret]

Remove(f, k) == [x \in DOMAIN f \ {k} |-> f[x]]

\* locals have automatic storage: the next local takes the address above the
\* live ones, and the local defined last is the first to go
Top(f) == Cardinality(DOMAIN f)

\* a local of class C is defined
NewObject(p, C) ==
    /\ p = Top(objs) + 1
    /\ objs' = objs @@ (p :> Construct(C))
    /\ lastSet' = [lastSet EXCEPT ![p] = <<>>]
    /\ last' = Op("new", p, <<>>, <<>>)
    /\ calls' = <<>>
    /\ out' = <<>>
    /\ UNCHANGED <<buttons, cand, verdict, named>>

\* a local goes out of scope; the wrappers over it were declared after it
\* and are gone already
DeleteObject(p) ==
    /\ p \in DOMAIN objs
    /\ p = Top(objs)
    /\ \A b \in DOMAIN buttons : buttons[b].digitalInput_ # p
    /\ objs' = Remove(objs, p)
    /\ lastSet' = [lastSet EXCEPT ![p] = <<>>]
    /\ last' = Op("delete", p, <<>>, <<>>)
    /\ calls' = <<>>
    /\ out' = <<>>
    /\ UNCHANGED <<buttons, cand, verdict, named>>

\* input.set_value(v)
SetValue(p, v) ==
    /\ p \in DOMAIN objs
    /\ objs[p].cls = MockedDigitalInput
    /\ objs' = [objs EXCEPT ![p] = MockedDigitalInput_set_value(objs[p], v).self]
    /\ lastSet' = [lastSet EXCEPT ![p] = <<v>>]
    /\ last' = Op("set_value", p, <<v>>, <<>>)
    /\ calls' = <<>>
    /\ out' = <<>>
    /\ UNCHANGED <<buttons, cand, verdict, named>>

\* Button<DIn> button(&input): DIn is the class of the object at p, and the
\* declaration compiles only when the template's constraint accepts DIn
NewButton(kind, b, p) ==
    /\ b = Top(buttons) + 1
    /\ p \in DOMAIN objs
    /\ Gate(kind, objs[p].cls)
    /\ buttons' = buttons @@ (b :> Button_new(kind, objs[p].cls, p))
    /\ last' = Op("Button", b, <<p>>, <<>>)
    /\ calls' = <<>>
    /\ out' = <<>>
    /\ UNCHANGED <<objs, lastSet, cand, verdict, named>>

\* the implicit destructor of a wrapper
DeleteButton(b) ==
    /\ b \in DOMAIN buttons
    /\ b = Top(buttons)
    /\ buttons' = Remove(buttons, b)
    /\ last' = Op("~Button", b, <<>>, <<>>)
    /\ calls' = <<>>
    /\ out' = <<>>
    /\ UNCHANGED <<objs, lastSet, cand, verdict, named>>

\* button.init()
ButtonInit(b) ==
    /\ b \in DOMAIN buttons
    /\ LET r == Button_init(buttons[b], objs) IN
        /\ objs' = r.heap
        /\ last' = Op("Button.init", b, <<>>, r.ret)
        /\ calls' = r.calls
        /\ out' = r.out
    /\ UNCHANGED <<buttons, lastSet, cand, verdict, named>>

\* button.read()
ButtonRead(b) ==
    /\ b \in DOMAIN buttons
    /\ LET r == Button_read(buttons[b], objs) IN
        /\ objs' = r.heap
        /\ last' = Op("Button.read", b, <<>>, r.ret)
        /\ calls' = r.calls
        /\ out' = r.out
    /\ UNCHANGED <<buttons, lastSet, cand, verdict, named>>

\* processSensor(sensor), for a sensor whose class the template compiles for
ProcessSensor(p) ==
    /\ p \in DOMAIN objs
    /\ processSensor_compiles(objs[p].cls)
    /\ LET r == processSensor(p, objs) IN
        /\ objs' = r.heap
        /\ last' = Op("processSensor", p, <<>>, <<>>)
        /\ calls' = r.calls
        /\ out' = r.out
    /\ UNCHANGED <<buttons, lastSet, cand, verdict, named>>

Init ==
    /\ cand = MockedDigitalInput
    /\ verdict = NotEvaluated
    /\ named = NotNamed
    /\ objs = << >>
    /\ buttons = << >>
    /\ last = Op("start", 0, <<>>, <<>>)
    /\ calls = <<>>
    /\ out = <<>>
    /\ lastSet = [p \in ObjIds |-> <<>>]

Next ==
    \/ \E p \in ObjIds, C \in Classes : NewObject(p, C)
    \/ \E p \in ObjIds : DeleteObject(p)
    \/ \E p \in ObjIds, v \in Values : SetValue(p, v)
    \/ \E kind \in Kinds, b \in BtnIds, p \in ObjIds : NewButton(kind, b, p)
    \/ \E b \in BtnIds : DeleteButton(b)
    \/ \E b \in BtnIds : ButtonInit(b)
    \/ \E b \in BtnIds : ButtonRead(b)
    \/ \E p \in ObjIds : ProcessSensor(p)

Spec == Init /\ [][Next]_vars

\* ------------------------------------------------------------------------
\* Translation: classifying a candidate type and naming the templates over it
\* ------------------------------------------------------------------------
\* the static_assert's and the tests of the predicates, for cand
Evaluate ==
    /\ verdict' =
         [evaluated |-> TRUE,
          old_sfinae |-> is_digital_input_old_sfinae_type_trait(cand),
          new_sfinae |-> is_digital_input_new_sfinae_type_trait_v(cand),
          concept |-> digital_input_concept(cand),
          DigitalInputConcept |-> DigitalInputConcept(cand),
          v |-> is_digital_input_v(cand)]
    /\ UNCHANGED <<cand, named, objs, buttons, last, calls, out, lastSet>>

Outcome(ok) == IF ok THEN "ok" ELSE "ill-formed"

\* ButtonWithSfinae<cand>
NameButtonWithSfinae ==
    /\ named' = [named EXCEPT
                   !["ButtonWithSfinae"] = Outcome(ButtonWithSfinae_gate(cand))]
    /\ UNCHANGED <<cand, verdict, objs, buttons, last, calls, out, lastSet>>

\* ButtonWithConcept<cand>
NameButtonWithConcept ==
    /\ named' = [named EXCEPT
                   !["ButtonWithConcept"] = Outcome(ButtonWithConcept_gate(cand))]
    /\ UNCHANGED <<cand, verdict, objs, buttons, last, calls, out, lastSet>>

\* processSensor<cand>
NameProcessSensor ==
    /\ named' = [named EXCEPT
                   !["processSensor"] = Outcome(processSensor_compiles(cand))]
    /\ UNCHANGED <<cand, verdict, objs, buttons, last, calls, out, lastSet>>

\* the next candidate type is taken up
Translate(T) ==
    /\ T # cand
    /\ cand' = T
    /\ verdict' = NotEvaluated
    /\ named' = NotNamed
    /\ UNCHANGED <<objs, buttons, last, calls, out, lastSet>>

InitT ==
    /\ cand \in CandidateTypes
    /\ verdict = NotEvaluated
    /\ named = NotNamed
    /\ objs = << >>
    /\ buttons = << >>
    /\ last = Op("start", 0, <<>>, <<>>)
    /\ calls = <<>>
    /\ out = <<>>
    /\ lastSet = [p \in ObjIds |-> <<>>]

NextT ==
    \/ Evaluate
    \/ NameButtonWithSfinae
    \/ NameButtonWithConcept
    \/ NameProcessSensor
    \/ \E T \in CandidateTypes : Translate(T)

SpecT == InitT /\ [][NextT]_vars

\* ------------------------------------------------------------------------
\* Properties
\* ------------------------------------------------------------------------
\* the contract: the signatures of the reference class DigitalIn
Conforms(T) == T.init = DigitalIn.init /\ T.read = DigitalIn.read

\* init() and read() exist, whatever they return
NamesPresent(T) == T.init # "none" /\ T.read # "none"

\* C1: a wrapper can be named over a candidate type only when the type
\* satisfies the contract {init() -> void, read() -> int}, and the two
\* wrappers accept the same types.
C1_WrappersGatedByContract ==
    /\ \A k \in Kinds : named[k] = "ok" => Conforms(cand)
    /\ (named["ButtonWithSfinae"] # "unused" /\ named["ButtonWithConcept"] # "unused")
           => named["ButtonWithSfinae"] = named["ButtonWithConcept"]

\* C2: on the fixtures MockedDigitalInput, MalformedDigitalInput and
\* AnalogSensor the probe-based trait, the void_t trait, the concept
\* digital_input_concept and is_digital_input_v give the same verdict: true
\* for MockedDigitalInput, false for the other two.
C2_EncodingsAgreeOnFixtures ==
    (verdict.evaluated
        /\ cand \in {MockedDigitalInput, MalformedDigitalInput, AnalogSensor})
    => /\ verdict.old_sfinae = (cand = MockedDigitalInput)
       /\ verdict.new_sfinae = (cand = MockedDigitalInput)
       /\ verdict.concept = (cand = MockedDigitalInput)
       /\ verdict.v = (cand = MockedDigitalInput)

C2_Witness ==
    verdict.evaluated /\ cand = AnalogSensor /\ ~verdict.new_sfinae

C6_ProcessSensorAcceptsEveryType == named["processSensor"] # "ill-formed"

\* the report processSensor printed: the last thing the operation printed
Report == out[Len(out)]

\* C4: read() of a wrapper over a MockedDigitalInput returns the argument of
\* the latest set_value on that collaborator, unmodified.
C4_ReadReturnsLatestSetValue ==
    (last.op = "Button.read" /\ buttons[last.id].DIn = MockedDigitalInput)
    => LET p == buttons[last.id].digitalInput_ IN
       lastSet[p] # <<>> => last.ret = lastSet[p]

C4_Witness ==
    /\ last.op = "Button.read"
    /\ buttons[last.id].kind = "ButtonWithConcept"
    /\ lastSet[buttons[last.id].digitalInput_] = <<100>>
    /\ last.ret = <<100>>

C8_Step ==
    /\ last'.op \in {"Button", "~Button"} => objs' = objs
    /\ \A b \in DOMAIN buttons \cap DOMAIN buttons' :
          buttons'[b].digitalInput_ = buttons[b].digitalInput_
    /\ last'.op = "Button.init" =>
          /\ calls' = <<[obj |-> buttons[last'.id].digitalInput_, fn |-> "init"]>>
          /\ objs' = objs
    /\ last'.op = "Button.read" =>
          /\ calls' = <<[obj |-> buttons[last'.id].digitalInput_, fn |-> "read"]>>
          /\ objs' = objs

C8_WrapperIsNonOwningForwarder == [][C8_Step]_vars

C8_Witness ==
    /\ last.op = "Button.init"
    /\ objs[buttons[last.id].digitalInput_].cls = MockedDigitalInput
    /\ objs[buttons[last.id].digitalInput_].value_ = 42

\* C9 as stated: on the digital path processSensor reports the int that the
\* sensor's read() returned.
C9_ReportsReadValue ==
    (last.op = "processSensor" /\ objs[last.id].cls = MockedDigitalInput
        /\ lastSet[last.id] # <<>>)
    => Report.data = lastSet[last.id]

\* C9 as amended: on the digital path processSensor reports the result of
\* read() converted to bool: 1 when read() returned a non-zero value, else 0.
C9_ReportsReadValueAsBool ==
    (last.op = "processSensor" /\ objs[last.id].cls = MockedDigitalInput
        /\ lastSet[last.id] # <<>>)
    => Report.data = <<IF lastSet[last.id][1] # 0 THEN 1 ELSE 0>>

C9_Witness ==
    /\ last.op = "processSensor"
    /\ objs[last.id].cls = MockedDigitalInput
    /\ lastSet[last.id] = <<42>>
    /\ Report.data = <<1>>

\* C10: wrappers over the same MockedDigitalInput read the same value, the one
\* the collaborator's own read() returns, and 0 before any set_value.
C10_WrappersAgree ==
    \A b1 \in DOMAIN buttons, b2 \in DOMAIN buttons :
       (buttons[b1].digitalInput_ = buttons[b2].digitalInput_
           /\ buttons[b1].DIn = MockedDigitalInput)
       => LET p == buttons[b1].digitalInput_ IN
          /\ Button_read(buttons[b1], objs).ret = Button_read(buttons[b2], objs).ret
          /\ Button_read(buttons[b1], objs).ret = MockedDigitalInput_read(objs[p]).ret
          /\ lastSet[p] = <<>> => Button_read(buttons[b1], objs).ret = <<0>>

C10_Witness ==
    \E b1 \in DOMAIN buttons, b2 \in DOMAIN buttons :
       /\ buttons[b1].kind = "ButtonWithSfinae"
       /\ buttons[b2].kind = "ButtonWithConcept"
       /\ buttons[b1].digitalInput_ = buttons[b2].digitalInput_
       /\ objs[buttons[b1].digitalInput_].cls = MockedDigitalInput
       /\ lastSet[buttons[b1].digitalInput_] = <<42>>
       /\ last.op = "Button.init"

====
